---- MODULE Spec2Model ----
(***************************************************************************)
(* Model of the knowledge-management server: the file-based storage        *)
(* backend (document records on disk, the in-memory vector index and its   *)
(* persisted snapshot), similarity search, and the ingestion tools.        *)
(* Every asynchronous method is split at its await points, so that the     *)
(* handlers of concurrent requests interleave as they do on the event loop.*)
(***************************************************************************)
EXTENDS Integers, Sequences, FiniteSets, Bags, TLC

\* ---------------------------------------------------------------- bounds
MaxDocs == 2
MaxChunks == 1
MaxCalls == 2
MaxFiles == 5
MaxNow == 2
MaxCliFiles == 3
MaxParallel == 2
MaxToolCalls == 2
MaxTextLength == 26
MaxWindows == 5
MaxWatchEvents == 3

DocIds == 1..MaxDocs

\* ---------------------------------------------------------------- values
\* An optional argument is a sequence of length 0 (undefined) or 1.
Undefined == <<>>
Some(v) == <<v>>
\* JavaScript truthiness of an optional number: undefined and 0 are falsy.
Truthy(o) == o # Undefined /\ o[1] # 0

\* Embedding vectors.  Their squared norms are perfect squares, so that the
\* cosine similarity below is exact in thousandths.
E1 == <<1, 0, 0, 0, 0>>
NegE1 == <<-1, 0, 0, 0, 0>>
B85 == <<17, 10, 3, 1, 1>>
ZeroVec == <<0, 0, 0, 0, 0>>
ShortVec == <<1>>

ScoreScale == 1000

RECURSIVE SumTo(_, _)
SumTo(f, n) == IF n = 0 THEN 0 ELSE f[n] + SumTo(f, n - 1)

Sqrt(n) == CHOOSE r \in 0..n : r * r = n

\* cosineSimilarity(a, b), in thousandths.
cosineSimilarity(a, b) ==
  IF Len(a) # Len(b) THEN 0
  ELSE LET dotProduct == SumTo([i \in 1..Len(a) |-> a[i] * b[i]], Len(a))
           normA == SumTo([i \in 1..Len(a) |-> a[i] * a[i]], Len(a))
           normB == SumTo([i \in 1..Len(b) |-> b[i] * b[i]], Len(b))
       IN IF normA = 0 \/ normB = 0 THEN 0
          ELSE (dotProduct * ScoreScale) \div (Sqrt(normA) * Sqrt(normB))

\* ---------------------------------------------------------------- documents
\* A Document: chunk i (0-based) of the record is chunks[i+1]; a chunk is
\* represented by its embedding.  id 0 stands for null.
\* tags is the array metadata.tags; customMetadata is a set of <<key, value>>
\* pairs with at most one pair per key.
NoDoc ==
  [id |-> 0, chunks |-> <<>>, tags |-> <<>>, customMetadata |-> {}, content |-> <<>>,
   createdAt |-> 0, updatedAt |-> 0]

Document(id, chunks, tags, meta) ==
  [id |-> id, chunks |-> chunks, tags |-> tags, customMetadata |-> meta, content |-> <<>>,
   createdAt |-> 0, updatedAt |-> 0]

\* ---------------------------------------------------------------- state
VARIABLES
  store,        \* FileSystemStorage: document id -> record on disk, or NoDoc
  vectorIndex,  \* ChromaStorage.vectorIndex, in insertion order
  diskIndex,    \* contents of vector_index.json
  calls,        \* the storeDocument / deleteDocument calls in flight (a bag)
  returned,     \* the call that returned in the last step, if any
  search,       \* the searchSimilar call in flight
  now,          \* Date.now(), in milliseconds
  batch,        \* the IngestTool.batchIngest call
  cli,          \* the run of a command-line batch ingestion
  tool,         \* the tool call of the server in progress, or the last one
  chunker,      \* the configuration in force and the chunk call under it
  watch         \* WatchIngest: its queue, isProcessing and the processFile call in progress

storageVars == <<store, vectorIndex, diskIndex, calls, returned, search>>
toolVars == <<now, batch, cli, tool, chunker, watch>>
vars == <<store, vectorIndex, diskIndex, calls, returned, search, now, batch, cli, tool,
          chunker, watch>>

\* ---------------------------------------------------------------- index
\* chunkId = `${document.id}_chunk_${chunk.index}`
ChunkId(d, i) == <<d, i>>

IndexEntry(d, i, e) ==
  [chunkId |-> ChunkId(d, i), embedding |-> e, documentId |-> d, chunkIndex |-> i]

HasKey(idx, k) == \E j \in 1..Len(idx) : idx[j].chunkId = k

\* this.vectorIndex[chunkId] = {...}: an existing key keeps its position.
IndexPut(idx, ent) ==
  IF HasKey(idx, ent.chunkId)
  THEN [j \in 1..Len(idx) |-> IF idx[j].chunkId = ent.chunkId THEN ent ELSE idx[j]]
  ELSE Append(idx, ent)

RECURSIVE IndexChunksFrom(_, _, _)
IndexChunksFrom(idx, doc, i) ==
  IF i > Len(doc.chunks) THEN idx
  ELSE IndexChunksFrom(IndexPut(idx, IndexEntry(doc.id, i - 1, doc.chunks[i])), doc, i + 1)

\* the loop of storeDocument over document.chunks
IndexChunks(idx, doc) == IndexChunksFrom(idx, doc, 1)

KeysOfDocument(idx, d) == {j \in 1..Len(idx) : idx[j].documentId = d}

RemoveDocumentKeys(idx, d) == SelectSeq(idx, LAMBDA ent : ent.documentId # d)

\* ---------------------------------------------------------------- search state
\* SearchOptions: every field is optional.
NoOptions ==
  [maxResults |-> Undefined, similarityThreshold |-> Undefined,
   filterTags |-> Undefined, filterMetadata |-> Undefined]

\* A search that has returned keeps its options, the hits it ranked and its
\* result list.
IdleSearch ==
  [pc |-> "idle", options |-> NoOptions, topResults |-> <<>>, i |-> 0,
   searchResults |-> <<>>]

\* the response of a finished search is gone once it has been delivered
Delivered(s) == IF s.pc = "done" THEN IdleSearch ELSE s

\* ---------------------------------------------------------------- handlers
\* A call in flight: the method, the await it is suspended at, its arguments
\* and the index text it has handed to fs.writeFile.
Call(kind, pc, id, doc, snap) ==
  [kind |-> kind, pc |-> pc, id |-> id, doc |-> doc, snap |-> snap]

NoReturn == [kind |-> "none", id |-> 0, err |-> FALSE]
Returns(c, err) == [kind |-> c.kind, id |-> c.id, err |-> err]

InFlight(c) == BagIn(c, calls)
CanCall == BagCardinality(calls) < MaxCalls
Start(c) == calls (+) SetToBag({c})
Finish(c) == calls (-) SetToBag({c})
Move(c, c2) == (calls (-) SetToBag({c})) (+) SetToBag({c2})

\* FileSystemStorage.loadDocument: null when the file does not exist
loadDocument(st, d) == IF d \in DOMAIN st THEN st[d] ELSE NoDoc

\* FileSystemStorage.saveDocument: the file <id>.json is created or replaced
saveDocument(st, doc) ==
  [d \in DOMAIN st \cup {doc.id} |-> IF d = doc.id THEN doc ELSE st[d]]

\* ChromaStorage.storeDocument ------------------------------------------
\* storeDocument without the await on saveDocument: the index is filled
\* while the record is still being written
StoreBegin_NoAwait(doc) ==
  /\ CanCall
  /\ calls' = Start(Call("store", "saved", doc.id, doc, <<>>))
  /\ returned' = NoReturn
  /\ search' = Delivered(search)
  /\ UNCHANGED <<store, vectorIndex, diskIndex>>

StoreBegin(doc) ==
  /\ CanCall
  /\ calls' = Start(Call("store", "saveDocument", doc.id, doc, <<>>))
  /\ returned' = NoReturn
  /\ search' = Delivered(search)
  /\ UNCHANGED <<store, vectorIndex, diskIndex>>

\* fs.writeFile of the document record completes
StoreSaveDocument(c) ==
  /\ InFlight(c) /\ c.kind = "store" /\ c.pc = "saveDocument"
  /\ store' = saveDocument(store, c.doc)
  /\ calls' = Move(c, [c EXCEPT !.pc = "saved"])
  /\ returned' = NoReturn
  /\ search' = Delivered(search)
  /\ UNCHANGED <<vectorIndex, diskIndex>>

\* a failed record write that is swallowed instead of rethrown
StoreSaveDocumentFail_Swallowed(c) ==
  /\ InFlight(c) /\ c.kind = "store" /\ c.pc = "saveDocument"
  /\ calls' = Move(c, [c EXCEPT !.pc = "saved"])
  /\ returned' = NoReturn
  /\ search' = Delivered(search)
  /\ UNCHANGED <<store, vectorIndex, diskIndex>>

\* fs.writeFile of the document record fails: 'Document storage failed'
StoreSaveDocumentFail(c) ==
  /\ InFlight(c) /\ c.kind = "store" /\ c.pc = "saveDocument"
  /\ calls' = Finish(c)
  /\ returned' = Returns(c, TRUE)
  /\ search' = Delivered(search)
  /\ UNCHANGED <<store, vectorIndex, diskIndex>>

\* the continuation after saveDocument: index the chunks, call saveIndex
StoreIndexChunks(c) ==
  /\ InFlight(c) /\ c.kind = "store" /\ c.pc = "saved"
  /\ IF Len(c.doc.chunks) > 0
     THEN /\ vectorIndex' = IndexChunks(vectorIndex, c.doc)
          /\ calls' = Move(c, Call("store", "saveIndex", c.id, NoDoc, vectorIndex'))
          /\ returned' = NoReturn
     ELSE /\ vectorIndex' = vectorIndex
          /\ calls' = Finish(c)
          /\ returned' = Returns(c, FALSE)
  /\ search' = Delivered(search)
  /\ UNCHANGED <<store, diskIndex>>

\* ChromaStorage.saveIndex ----------------------------------------------
\* fs.writeFile of the serialized index completes and the caller returns
SaveIndex(c) ==
  /\ InFlight(c) /\ c.pc = "saveIndex"
  /\ diskIndex' = c.snap
  /\ calls' = Finish(c)
  /\ returned' = Returns(c, FALSE)
  /\ search' = Delivered(search)
  /\ UNCHANGED <<store, vectorIndex>>

\* fs.writeFile of the serialized index fails: the caller rethrows
SaveIndexFail(c) ==
  /\ InFlight(c) /\ c.pc = "saveIndex"
  /\ calls' = Finish(c)
  /\ returned' = Returns(c, TRUE)
  /\ search' = Delivered(search)
  /\ UNCHANGED <<store, vectorIndex, diskIndex>>

\* ManagementTool.deleteDocument ----------------------------------------
\* getDocument has returned: 'Document not found' (success: false), or the
\* call of storage.deleteDocument
MgmtDeleteDocument(d) ==
  /\ CanCall
  /\ IF loadDocument(store, d) = NoDoc
     THEN /\ calls' = calls
          /\ returned' = [kind |-> "delete", id |-> d, err |-> TRUE]
     ELSE /\ calls' = Start(Call("delete", "unlink", d, NoDoc, <<>>))
          /\ returned' = NoReturn
  /\ search' = Delivered(search)
  /\ UNCHANGED <<store, vectorIndex, diskIndex>>

\* ChromaStorage.deleteDocument -----------------------------------------
DeleteBegin(d) ==
  /\ CanCall
  /\ calls' = Start(Call("delete", "unlink", d, NoDoc, <<>>))
  /\ returned' = NoReturn
  /\ search' = Delivered(search)
  /\ UNCHANGED <<store, vectorIndex, diskIndex>>

\* an unlink that reports a missing file instead of swallowing ENOENT
DeleteUnlink_ThrowsENOENT(c) ==
  /\ InFlight(c) /\ c.kind = "delete" /\ c.pc = "unlink"
  /\ IF loadDocument(store, c.id) = NoDoc
     THEN /\ calls' = Finish(c)
          /\ returned' = Returns(c, TRUE)
     ELSE /\ calls' = Move(c, [c EXCEPT !.pc = "unlinked"])
          /\ returned' = NoReturn
  /\ store' = [store EXCEPT ![c.id] = NoDoc]
  /\ search' = Delivered(search)
  /\ UNCHANGED <<vectorIndex, diskIndex>>

\* fs.unlink completes; ENOENT is swallowed by FileSystemStorage
DeleteUnlink(c) ==
  /\ InFlight(c) /\ c.kind = "delete" /\ c.pc = "unlink"
  /\ store' = [store EXCEPT ![c.id] = NoDoc]
  /\ calls' = Move(c, [c EXCEPT !.pc = "unlinked"])
  /\ returned' = NoReturn
  /\ search' = Delivered(search)
  /\ UNCHANGED <<vectorIndex, diskIndex>>

\* the continuation after the unlink: drop the keys, save if any was dropped
DeleteRemoveChunks(c) ==
  /\ InFlight(c) /\ c.kind = "delete" /\ c.pc = "unlinked"
  /\ vectorIndex' = RemoveDocumentKeys(vectorIndex, c.id)
  /\ IF KeysOfDocument(vectorIndex, c.id) # {}
     THEN /\ calls' = Move(c, Call("delete", "saveIndex", c.id, NoDoc, vectorIndex'))
          /\ returned' = NoReturn
     ELSE /\ calls' = Finish(c)
          /\ returned' = Returns(c, FALSE)
  /\ search' = Delivered(search)
  /\ UNCHANGED <<store, diskIndex>>

\* ChromaStorage.searchSimilar ------------------------------------------
Hit(ent, score) ==
  [chunkId |-> ent.chunkId, score |-> score, documentId |-> ent.documentId,
   chunkIndex |-> ent.chunkIndex]

DefaultMaxResults == 10

\* the loop over Object.entries(this.vectorIndex) with the threshold test
RECURSIVE Similarities(_, _, _, _)
Similarities(idx, embedding, options, j) ==
  IF j > Len(idx) THEN <<>>
  ELSE LET score == cosineSimilarity(embedding, idx[j].embedding)
           rest == Similarities(idx, embedding, options, j + 1)
       IN IF Truthy(options.similarityThreshold)
             /\ score < options.similarityThreshold[1]
          THEN rest
          ELSE <<Hit(idx[j], score)>> \o rest

\* position at which a stable descending sort places x in the sorted prefix
RECURSIVE InsertByScore(_, _)
InsertByScore(sorted, x) ==
  IF sorted = <<>> THEN <<x>>
  ELSE IF Head(sorted).score >= x.score
       THEN <<Head(sorted)>> \o InsertByScore(Tail(sorted), x)
       ELSE <<x>> \o sorted

\* similarities.sort((a, b) => b.score - a.score): Array.prototype.sort is stable
RECURSIVE SortByScore(_)
SortByScore(s) ==
  IF s = <<>> THEN <<>>
  ELSE InsertByScore(SortByScore(SubSeq(s, 1, Len(s) - 1)), s[Len(s)])

MaxResultsOf(options) ==
  IF Truthy(options.maxResults) THEN options.maxResults[1] ELSE DefaultMaxResults

Slice(s, n) == SubSeq(s, 1, IF n < Len(s) THEN n ELSE Len(s))

TopResults(idx, embedding, options) ==
  Slice(SortByScore(Similarities(idx, embedding, options, 1)), MaxResultsOf(options))

Includes(arr, x) == \E j \in 1..Len(arr) : arr[j] = x

\* options.filterTags.some(tag => document.metadata.tags.includes(tag))
HasMatchingTag(filterTags, document) ==
  \E j \in 1..Len(filterTags) : Includes(document.tags, filterTags[j])

SearchResult(hit, document) ==
  [chunkId |-> hit.chunkId, document |-> document, score |-> hit.score,
   distance |-> ScoreScale - hit.score]

\* the loop body without the test for a missing document
PushResult_KeepStale(searchResults, hit, document, options) ==
  Append(searchResults, SearchResult(hit, document))

\* the body of the loop over topResults for one hit whose document was read
PushResult(searchResults, hit, document, options) ==
  IF document = NoDoc THEN searchResults
  ELSE IF options.filterTags # Undefined /\ Len(options.filterTags[1]) > 0
          /\ ~HasMatchingTag(options.filterTags[1], document)
       THEN searchResults
       ELSE IF hit.chunkIndex >= Len(document.chunks) THEN searchResults
            ELSE Append(searchResults, SearchResult(hit, document))

SearchBegin(embedding, options) ==
  /\ search.pc \in {"idle", "done"}
  /\ LET top == TopResults(vectorIndex, embedding, options)
     IN search' = [IdleSearch EXCEPT
                     !.pc = IF top = <<>> THEN "done" ELSE "getDocument",
                     !.options = options, !.topResults = top,
                     !.i = IF top = <<>> THEN 0 ELSE 1]
  /\ returned' = NoReturn
  /\ UNCHANGED <<store, vectorIndex, diskIndex, calls>>

\* one getDocument of the loop returns and the loop body runs
SearchGetDocument ==
  /\ search.pc = "getDocument"
  /\ LET hit == search.topResults[search.i]
         document == loadDocument(store, hit.documentId)
         last == search.i = Len(search.topResults)
     IN search' = [search EXCEPT
          !.searchResults = PushResult(search.searchResults, hit, document, search.options),
          !.i = IF last THEN 0 ELSE search.i + 1,
          !.pc = IF last THEN "done" ELSE "getDocument"]
  /\ returned' = NoReturn
  /\ UNCHANGED <<store, vectorIndex, diskIndex, calls>>

\* process exit and ChromaStorage.initialize: the calls in flight are lost
\* and the index is read back from vector_index.json
CrashRestart ==
  /\ vectorIndex' = diskIndex
  /\ calls' = EmptyBag
  /\ returned' = NoReturn
  /\ search' = IdleSearch
  /\ UNCHANGED <<store, diskIndex>>

\* ---------------------------------------------------------------- ingestion
\* A file name is a sequence of characters.
SafeChars == {"a", "b", "_", "c", "e", "n", "o", "t", "x"}
Alphabet == <<"a", "b", "_", " ", "c", "e", "n", "o", "t", "x">>
CharCode(ch) == CHOOSE j \in 1..Len(Alphabet) : Alphabet[j] = ch

\* sanitizeFilename: every character outside [a-zA-Z0-9._-] becomes '_'
sanitizeFilename(filename) ==
  [j \in 1..Len(filename) |-> IF filename[j] \in SafeChars THEN filename[j] ELSE "_"]

\* the first 8 hex digits of md5(`${sanitized}_${timestamp}`): a function of
\* the hashed string alone
HashSpace == 64
RECURSIVE md5Prefix(_, _)
md5Prefix(str, h) ==
  IF str = <<>> THEN h ELSE md5Prefix(Tail(str), (h * 5 + Head(str)) % HashSpace)

\* IngestTool.generateDocumentId: `doc_${timestamp}_${hash}`
generateDocumentId(filename, timestamp) ==
  LET sanitized == sanitizeFilename(filename)
      hash == md5Prefix([j \in 1..Len(sanitized) |-> CharCode(sanitized[j])]
                          \o <<CharCode("_"), timestamp>>, 0)
  IN timestamp * HashSpace + hash

IdleBatch ==
  [pc |-> "idle", files |-> <<>>, k |-> 0, document |-> NoDoc, results |-> <<>>,
   errors |-> <<>>, successCount |-> 0, failedCount |-> 0]

\* an ingestDocument that rethrows instead of returning a result
ErrorResult_Thrown(message) ==
  [documentId |-> 0, chunksCreated |-> 0, status |-> "thrown", message |-> message]

\* IngestResult
SuccessResult(documentId, chunksCreated) ==
  [documentId |-> documentId, chunksCreated |-> chunksCreated, status |-> "success",
   message |-> "Document ingested successfully"]
ErrorResult(message) ==
  [documentId |-> 0, chunksCreated |-> 0, status |-> "error", message |-> message]

\* a loop that gives up at the first file that fails
CountResult_StopAtFailure(b, result) ==
  LET file == b.files[b.k]
      failed == result.status # "success"
  IN [b EXCEPT !.results = Append(@, result),
               !.successCount = IF failed THEN @ ELSE @ + 1,
               !.failedCount = IF failed THEN @ + 1 ELSE @,
               !.errors = IF failed THEN Append(@, [file |-> file, error |-> result.message])
                          ELSE @,
               !.k = @ + 1,
               !.pc = IF failed \/ b.k = Len(b.files) THEN "done" ELSE "ingestDocument"]

\* batchIngest, the loop body after ingestDocument has returned, and the
\* loop's advance to the next file or to the return of the result
CountResult(b, result) ==
  LET file == b.files[b.k]
      failed == result.status # "success"
  IN [b EXCEPT !.results = Append(@, result),
               !.successCount = IF failed THEN @ ELSE @ + 1,
               !.failedCount = IF failed THEN @ + 1 ELSE @,
               !.errors = IF failed THEN Append(@, [file |-> file, error |-> result.message])
                          ELSE @,
               !.k = @ + 1,
               !.pc = IF b.k = Len(b.files) THEN "done" ELSE "ingestDocument"]

\* validateDirectoryPath throws: batchIngest rethrows
BatchIngestInvalidDirectory ==
  /\ batch.pc = "idle"
  /\ batch' = [batch EXCEPT !.pc = "thrown"]
  /\ UNCHANGED <<storageVars, now, cli, tool, chunker, watch>>

\* findFiles has returned the files to ingest
BatchIngest(files) ==
  /\ batch.pc = "idle"
  /\ batch' = [IdleBatch EXCEPT !.files = files, !.k = 1,
                                !.pc = IF files = <<>> THEN "done" ELSE "ingestDocument"]
  /\ UNCHANGED <<storageVars, now, cli, tool, chunker, watch>>

\* ingestDocument catches an error of validation, extraction, chunking or
\* embedding and returns status 'error'
IngestDocumentFails(message) ==
  /\ batch.pc = "ingestDocument"
  /\ batch' = CountResult(batch, ErrorResult(message))
  /\ UNCHANGED <<storageVars, now, cli, tool, chunker, watch>>

\* ingestDocument builds the document and calls storage.storeDocument
IngestDocumentStore(chunks) ==
  /\ batch.pc = "ingestDocument"
  /\ LET documentId == generateDocumentId(batch.files[batch.k].name, now)
         document == Document(documentId, chunks, <<>>, {})
     IN /\ StoreBegin(document)
        /\ batch' = [batch EXCEPT !.pc = "storeDocument", !.document = document]
  /\ UNCHANGED <<now, cli, tool, chunker, watch>>

\* storeDocument has returned or thrown
IngestDocumentStored ==
  /\ batch.pc = "storeDocument"
  /\ returned.kind = "store" /\ returned.id = batch.document.id
  /\ batch' = CountResult(batch,
                IF returned.err THEN ErrorResult("Document storage failed")
                ELSE SuccessResult(batch.document.id, Len(batch.document.chunks)))
  /\ returned' = NoReturn
  /\ UNCHANGED <<store, vectorIndex, diskIndex, calls, search, now, cli, tool, chunker, watch>>

\* the clock advances by a millisecond
Tick ==
  /\ now < MaxNow
  /\ now' = now + 1
  /\ UNCHANGED <<storageVars, batch, cli, tool, chunker, watch>>

\* ---------------------------------------------------------------- command line
\* FastIngestCLI.ingestFiles ("fast") and batchIngest of the batch-ingest
\* script ("script").  files is the number of files given; the files of the
\* current group are files i+1 .. i+Len(tasks), one task each.
DefaultParallel == 3

IdleCli ==
  [pc |-> "idle", variant |-> "fast", files |-> 0, batchSize |-> 0, dryRun |-> FALSE,
   i |-> 0, tasks |-> <<>>, processed |-> 0, failed |-> 0, totalChunks |-> 0]

Min(a, b) == IF a < b THEN a ELSE b

\* a run that starts every remaining file at once
GroupTasks_AllAtOnce(files, i, batchSize) ==
  [t \in 1..(files - i) |-> [pc |-> "stat", id |-> 0, chunks |-> 0]]

\* batch.map(async (filePath) => ...): every file of the group starts at stat
GroupTasks(files, i, batchSize) ==
  [t \in 1..Min(batchSize, files - i) |-> [pc |-> "stat", id |-> 0, chunks |-> 0]]

\* const batchSize = options.parallel || 3, and the first group
CliStart(variant, files, parallel, dryRun) ==
  /\ cli.pc = "idle"
  /\ LET batchSize == IF parallel = 0 THEN DefaultParallel ELSE parallel
     IN cli' = [IdleCli EXCEPT !.pc = IF files = 0 THEN "done" ELSE "group",
                               !.variant = variant, !.files = files,
                               !.batchSize = batchSize, !.dryRun = dryRun,
                               !.tasks = GroupTasks(files, 0, batchSize)]
  /\ UNCHANGED <<storageVars, now, batch, tool, chunker, watch>>

\* a task ends without an exception
TaskEnds(c, t, counter) ==
  [c EXCEPT !.tasks[t].pc = "done",
            !.processed = IF counter = "processed" THEN @ + 1 ELSE @,
            !.totalChunks = IF counter = "processed" THEN @ + c.tasks[t].chunks ELSE @,
            !.failed = IF counter = "failed" THEN @ + 1 ELSE @]

\* an exception in a task: the script's catch counts the file as failed; in
\* FastIngestCLI nothing catches it, the task's promise rejects and with it
\* Promise.all and ingestFiles
TaskThrows(c, t) ==
  IF c.variant = "script" THEN TaskEnds(c, t, "failed")
  ELSE [c EXCEPT !.tasks[t].pc = "thrown",
                 !.pc = IF @ = "group" THEN "rejected" ELSE @]

\* fs.stat returns
TaskStat(t) ==
  /\ t \in DOMAIN cli.tasks /\ cli.tasks[t].pc = "stat"
  /\ cli' = IF cli.variant = "fast" /\ cli.dryRun THEN TaskEnds(cli, t, "processed")
            ELSE [cli EXCEPT !.tasks[t].pc = "processFile"]
  /\ UNCHANGED <<storageVars, now, batch, tool, chunker, watch>>

\* fs.stat throws
TaskStatFails(t) ==
  /\ t \in DOMAIN cli.tasks /\ cli.tasks[t].pc = "stat"
  /\ cli' = TaskThrows(cli, t)
  /\ UNCHANGED <<storageVars, now, batch, tool, chunker, watch>>

\* extraction, chunking and embedding succeed: the document gets its random
\* id and storage.storeDocument is called
TaskStoreDocument(t, d, chunks) ==
  /\ t \in DOMAIN cli.tasks /\ cli.tasks[t].pc = "processFile"
  /\ \A u \in DOMAIN cli.tasks : cli.tasks[u].pc = "storeDocument" => cli.tasks[u].id # d
  /\ StoreBegin(Document(d, chunks, <<>>, {}))
  /\ cli' = [cli EXCEPT !.tasks[t] = [pc |-> "storeDocument", id |-> d, chunks |-> Len(chunks)]]
  /\ UNCHANGED <<now, batch, tool, chunker, watch>>

\* extraction, chunking or embedding throws: FastIngestCLI.processFile
\* returns null, the script's catch runs
TaskProcessFileFails(t) ==
  /\ t \in DOMAIN cli.tasks /\ cli.tasks[t].pc = "processFile"
  /\ cli' = TaskEnds(cli, t, "failed")
  /\ UNCHANGED <<storageVars, now, batch, tool, chunker, watch>>

\* storeDocument has returned or thrown
TaskStored(t) ==
  /\ t \in DOMAIN cli.tasks /\ cli.tasks[t].pc = "storeDocument"
  /\ returned.kind = "store" /\ returned.id = cli.tasks[t].id
  /\ cli' = IF returned.err THEN TaskThrows(cli, t) ELSE TaskEnds(cli, t, "processed")
  /\ returned' = NoReturn
  /\ UNCHANGED <<store, vectorIndex, diskIndex, calls, search, now, batch, tool, chunker, watch>>

\* await Promise.all(batchPromises) resolves: the next group, or the results
GroupDone ==
  /\ cli.pc = "group"
  /\ \A t \in DOMAIN cli.tasks : cli.tasks[t].pc = "done"
  /\ LET i == cli.i + cli.batchSize
     IN cli' = [cli EXCEPT !.i = i,
                           !.pc = IF i < cli.files THEN "group" ELSE "done",
                           !.tasks = IF i < cli.files
                                     THEN GroupTasks(cli.files, i, cli.batchSize) ELSE <<>>]
  /\ UNCHANGED <<storageVars, now, batch, tool, chunker, watch>>

\* ---------------------------------------------------------------- tool calls
\* The tools of the server, one call at a time.  Texts, tags and file names
\* are sequences of characters.
RECURSIVE TrimStart(_)
TrimStart(str) == IF str # <<>> /\ Head(str) = " " THEN TrimStart(Tail(str)) ELSE str
RECURSIVE TrimEnd(_)
TrimEnd(str) ==
  IF str # <<>> /\ str[Len(str)] = " " THEN TrimEnd(SubSeq(str, 1, Len(str) - 1)) ELSE str
\* String.prototype.trim
Trim(str) == TrimEnd(TrimStart(str))

\* validateTags: tags.map(tag => tag.trim()).filter(tag => tag.length > 0)
validateTags(tags) ==
  SelectSeq([j \in 1..Len(tags) |-> Trim(tags[j])], LAMBDA tag : Len(tag) > 0)

\* truthiness of an optional string: undefined and '' are falsy
TruthyString(o) == o # Undefined /\ o[1] # <<>>

TextContentName == <<"t", "e", "x", "t", "_", "c", "o", "n", "t", "e", "n", "t">>

IdleTool ==
  [pc |-> "idle", op |-> "none", n |-> 0, args |-> <<>>, content |-> <<>>,
   document |-> NoDoc, result |-> <<>>, before |-> <<>>]

\* a call of a tool begins: the calls are counted, and the store and the
\* index at the time of the call are remembered in before
ToolCall(op, args) ==
  [IdleTool EXCEPT !.op = op, !.n = tool.n + 1, !.args = args,
                   !.before = <<store, vectorIndex, diskIndex>>]

\* processedChunks: chunk j gets embeddings[j], undefined when there is none
processedChunks(chunks, embeddings) ==
  [j \in 1..chunks |-> IF j <= Len(embeddings) THEN embeddings[j] ELSE Undefined]

\* an ingestDocument that drops the tags
NewDocument_NoTags(documentId, content, chunks, tags, customMetadata, date) ==
  [id |-> documentId, chunks |-> chunks, tags |-> <<>>, customMetadata |-> customMetadata,
   content |-> content, createdAt |-> date, updatedAt |-> date]

\* the Document built by ingestDocument
NewDocument(documentId, content, chunks, tags, customMetadata, date) ==
  [id |-> documentId, chunks |-> chunks, tags |-> tags, customMetadata |-> customMetadata,
   content |-> content, createdAt |-> date, updatedAt |-> date]

\* IngestTool.ingestDocument up to its call of storage.storeDocument.
\* fileOk: the validation of the file passes; fileContent: what the file
\* holds; chunks: how many chunks the chunking strategy makes, -1 when it
\* throws; embeddings: the vectors the provider returns; embedOk: the
\* provider does not throw.
IngestDocument(args, fileOk, fileContent, chunks, embeddings, embedOk) ==
  LET call == ToolCall("ingestDocument", args)
      fails(message) ==
        /\ tool' = [call EXCEPT !.pc = "returned", !.result = ErrorResult(message)]
        /\ UNCHANGED storageVars
      hasPath == args.file_path # Undefined
      hasText == TruthyString(args.text_content)
      content == IF hasPath THEN fileContent ELSE args.text_content[1]
      filename == IF hasPath THEN args.file_path[1].name ELSE TextContentName
      tags == IF args.tags # Undefined THEN validateTags(args.tags[1]) ELSE <<>>
      documentId == generateDocumentId(filename, now)
      document == NewDocument(documentId, content, processedChunks(chunks, embeddings),
                              tags, args.metadata, now)
  IN /\ tool.pc \in {"idle", "returned"}
     /\ tool.n < MaxToolCalls
     /\ IF ~hasPath /\ ~hasText
          THEN fails("Either file_path or text_content must be provided")
        ELSE IF hasPath /\ hasText
          THEN fails("Cannot provide both file_path and text_content")
        ELSE IF hasPath /\ ~fileOk THEN fails("File not found")
        ELSE IF hasPath /\ Trim(fileContent) = <<>> THEN fails("File is empty")
        ELSE IF chunks < 0 THEN fails("Unknown chunking strategy")
        ELSE IF ~embedOk THEN fails("Embedding generation failed")
        ELSE /\ StoreBegin(document)
             /\ tool' = [call EXCEPT !.pc = "storeDocument", !.content = content,
                                     !.document = document]
     /\ UNCHANGED <<now, batch, cli, chunker, watch>>

\* storeDocument has returned or thrown
IngestDocumentReturns ==
  /\ tool.pc = "storeDocument" /\ tool.op = "ingestDocument"
  /\ returned.kind = "store" /\ returned.id = tool.document.id
  /\ tool' = [tool EXCEPT !.pc = "returned",
                          !.result = IF returned.err
                                     THEN ErrorResult("Document storage failed")
                                     ELSE SuccessResult(tool.document.id,
                                                        Len(tool.document.chunks))]
  /\ returned' = NoReturn
  /\ UNCHANGED <<store, vectorIndex, diskIndex, calls, search, now, batch, cli, chunker, watch>>

\* ManagementTool.getDocument: the answer for a stored document
FormatDocument(document) ==
  [id |-> document.id, content |-> document.content, tags |-> document.tags,
   chunks |-> Len(document.chunks), created_at |-> document.createdAt,
   updated_at |-> document.updatedAt]

\* ManagementTool.getDocument: throws 'Document not found' for a missing one
GetDocument(d) ==
  /\ tool.pc \in {"idle", "returned"}
  /\ tool.n < MaxToolCalls
  /\ LET document == loadDocument(store, d)
     IN tool' = [ToolCall("getDocument", d) EXCEPT
                   !.pc = "returned",
                   !.result = IF document = NoDoc THEN ErrorResult("Document not found")
                              ELSE FormatDocument(document)]
  /\ UNCHANGED <<storageVars, now, batch, cli, chunker, watch>>

\* a merge that forgets the keys that were not supplied
Spread_Replace(old, new) == new

\* { ...old, ...new } on maps held as sets of <<key, value>> pairs
Spread(old, new) == {p \in old : \A q \in new : q[1] # p[1]} \cup new

\* ManagementTool.updateDocumentMetadata up to the write of the record:
\* 'Document not found' for a missing document, else the record with the
\* updates spread over its metadata is handed to FileSystemStorage.updateDocument
UpdateDocumentMetadata(args) ==
  LET call == ToolCall("updateDocumentMetadata", args)
      tags == IF args.tags # Undefined THEN Some(validateTags(args.tags[1])) ELSE Undefined
      document == loadDocument(store, args.document_id)
      customMetadata == IF args.metadata # Undefined
                        THEN Spread(document.customMetadata, args.metadata[1])
                        ELSE document.customMetadata
      updated == [document EXCEPT !.customMetadata = customMetadata,
                                  !.tags = IF tags # Undefined THEN tags[1] ELSE @,
                                  !.updatedAt = now]
  IN /\ tool.pc \in {"idle", "returned"}
     /\ tool.n < MaxToolCalls
     /\ tool' = IF document = NoDoc
                THEN [call EXCEPT !.pc = "returned",
                                  !.result = [success |-> FALSE, message |-> "Document not found"]]
                ELSE [call EXCEPT !.pc = "updateDocument", !.document = updated]
     /\ UNCHANGED <<storageVars, now, batch, cli, chunker, watch>>

\* fs.writeFile of the updated record completes
UpdateDocumentSaved ==
  /\ tool.pc = "updateDocument"
  /\ store' = saveDocument(store, tool.document)
  /\ tool' = [tool EXCEPT !.pc = "returned",
                          !.result = [success |-> TRUE,
                                      message |-> "Document metadata updated successfully"]]
  /\ UNCHANGED <<vectorIndex, diskIndex, calls, returned, search, now, batch, cli, chunker, watch>>

\* fs.writeFile of the updated record fails: success false
UpdateDocumentFails ==
  /\ tool.pc = "updateDocument"
  /\ tool' = [tool EXCEPT !.pc = "returned",
                          !.result = [success |-> FALSE, message |-> "Metadata update failed"]]
  /\ UNCHANGED <<storageVars, now, batch, cli, chunker, watch>>

Stored(st) == {d \in DOMAIN st : st[d] # NoDoc}

\* the name under which readdir lists vector_index.json, which ChromaStorage
\* keeps in the directory of the records
IndexFileId == -1

Range(seq) == {seq[j] : j \in 1..Len(seq)}

Orderings(S) ==
  {seq \in [1..Cardinality(S) -> S] : \A j, k \in 1..Cardinality(S) : j # k => seq[j] # seq[k]}

\* FileSystemStorage.listDocuments: every *.json of the directory, in the
\* order readdir happens to give
Listing(st) == Orderings(Stored(st) \cup {IndexFileId})

\* Date.getTime() of the loaded object: the parsed index has no createdAt,
\* new Date(undefined) is an invalid date, its time is NaN
HasTime(id) == id # IndexFileId

RECURSIVE InsertByCreatedAt(_, _, _)
InsertByCreatedAt(st, sorted, id) ==
  IF sorted = <<>> THEN <<id>>
  ELSE IF st[id].createdAt > st[Head(sorted)].createdAt THEN <<id>> \o sorted
  ELSE <<Head(sorted)>> \o InsertByCreatedAt(st, Tail(sorted), id)

RECURSIVE SortByCreatedAt(_, _)
SortByCreatedAt(st, ids) ==
  IF ids = <<>> THEN <<>>
  ELSE InsertByCreatedAt(st, SortByCreatedAt(st, SubSeq(ids, 1, Len(ids) - 1)), ids[Len(ids)])

\* documents.sort((a, b) => b.createdAt.getTime() - a.createdAt.getTime()):
\* a stable sort, newest first; a NaN difference counts as 0, and once that
\* makes the comparison inconsistent the order is whatever the engine gives
Sorted(st, ids) ==
  LET timed == {id \in Range(ids) : HasTime(id)}
  IN IF timed = Range(ids) THEN {SortByCreatedAt(st, ids)}
     ELSE IF \A d, e \in timed : st[d].createdAt = st[e].createdAt THEN {ids}
     ELSE Orderings(Range(ids))

\* Array.prototype.slice(from, to) for 0 <= from
SliceFrom(seq, from, to) == SubSeq(seq, from + 1, Min(to, Len(seq)))

\* x || fallback on an optional number
OrElse(o, fallback) == IF o = Undefined \/ o[1] = 0 THEN fallback ELSE o[1]

ListThrown == [status |-> "thrown", documents |-> <<>>, total |-> 0]

\* ChromaStorage.listDocuments on the listing ids with the order sorted that sort() gave
StorageListDocuments(st, ids, filter) ==
  LET filtering == filter.tags # Undefined /\ Len(filter.tags[1]) > 0
      matches(id) == \E j \in 1..Len(filter.tags[1]) : filter.tags[1][j] \in Range(st[id].tags)
      documents == SelectSeq(ids, LAMBDA id : ~filtering \/ matches(id))
  IN IF filtering /\ IndexFileId \in Range(ids)
     THEN {ListThrown}
     ELSE {[status |-> "success",
            documents |-> SliceFrom(sorted, OrElse(filter.offset, 0),
                                    OrElse(filter.offset, 0) + OrElse(filter.limit, Len(documents))),
            total |-> 0] : sorted \in Sorted(st, documents)}

\* ManagementTool.listDocuments: the storage's listing with limit || 50 and
\* offset || 0, each object formatted; a throw of either is rethrown
ListDocuments(args) ==
  /\ tool.pc \in {"idle", "returned"}
  /\ tool.n < MaxToolCalls
  /\ \E ids \in Listing(store) :
       \E listed \in StorageListDocuments(store, ids,
                       [tags |-> args.tags, limit |-> Some(OrElse(args.limit, 50)),
                        offset |-> Some(OrElse(args.offset, 0))]) :
          tool' = [ToolCall("listDocuments", args) EXCEPT
                     !.pc = "returned",
                     !.result = IF listed.status = "thrown" \/ IndexFileId \in Range(listed.documents)
                                THEN ListThrown
                                ELSE [listed EXCEPT !.total = Len(listed.documents)]]
  /\ UNCHANGED <<storageVars, now, batch, cli, chunker, watch>>

\* doc.chunks of a loaded object: the parsed index has no chunks
HasChunks(id) == id # IndexFileId

RECURSIVE SumChunks(_, _)
SumChunks(st, ids) ==
  IF ids = <<>> THEN 0 ELSE Len(st[Head(ids)].chunks) + SumChunks(st, Tail(ids))

\* ChromaStorage.getStats over the listing ids: every listed object that
\* loads counts as a document, and doc.chunks.length throws on one without chunks
StorageGetStats(st, idx, ids) ==
  IF \E j \in 1..Len(ids) : ~HasChunks(ids[j])
  THEN [status |-> "thrown", totalDocuments |-> 0, totalChunks |-> 0, collectionSize |-> 0]
  ELSE [status |-> "success", totalDocuments |-> Len(ids), totalChunks |-> SumChunks(st, ids),
        collectionSize |-> Len(idx)]

\* ManagementTool.getCollectionStats: the storage's figures, or its throw
GetStats ==
  /\ tool.pc \in {"idle", "returned"}
  /\ tool.n < MaxToolCalls
  /\ \E ids \in Listing(store) :
       tool' = [ToolCall("getStats", <<>>) EXCEPT
                  !.pc = "returned", !.result = StorageGetStats(store, vectorIndex, ids)]
  /\ UNCHANGED <<storageVars, now, batch, cli, chunker, watch>>

\* ---------------------------------------------------------------- chunking
\* lengths are counted in units of 100 characters: the floor of 100
\* characters that validateConfig puts on chunkSize is 1
ChunkSizeFloor == 1

IdleChunker ==
  [pc |-> "idle", path |-> "none", text |-> <<>>,
   options |-> [chunkSize |-> 0, chunkOverlap |-> 0], position |-> 0, chunks |-> <<>>,
   strategy |-> "fixed", units |-> <<>>, k |-> 0, currentChunk |-> <<>>, currentStart |-> 0,
   chunkIndex |-> 0, charPosition |-> 0, overlapText |-> <<>>]

\* validateConfig, the two tests on the chunking options
validateConfig(options) ==
  /\ ~(options.chunkSize < ChunkSizeFloor)
  /\ ~(options.chunkOverlap >= options.chunkSize)

\* the server starts: loadConfig reads CHUNK_SIZE and CHUNK_OVERLAP from the
\* environment and validateConfig throws on them or lets the server run
ServerStart(env, text) ==
  /\ chunker.pc \notin {"loop", "units"}
  /\ chunker' = [IdleChunker EXCEPT !.pc = IF validateConfig(env) THEN "loop" ELSE "configError",
                                    !.path = "server", !.text = text, !.options = env]
  /\ UNCHANGED <<storageVars, now, batch, cli, tool, watch>>

\* FastIngestCLI.initialize: loadConfig, then --chunk-size replaces chunkSize
\* when given; the options go to the chunker as they are
CliInitialize(env, chunkSize, text) ==
  /\ chunker.pc \notin {"loop", "units"}
  /\ chunker' = [IdleChunker EXCEPT !.pc = "loop", !.path = "cli", !.text = text,
                                    !.options = [env EXCEPT !.chunkSize = OrElse(chunkSize, @)]]
  /\ UNCHANGED <<storageVars, now, batch, cli, tool, watch>>

\* one turn of the while loop of FixedChunking.chunk
ChunkLoop ==
  /\ chunker.pc = "loop"
  /\ chunker.position < Len(chunker.text)
  /\ Len(chunker.chunks) < MaxWindows
  /\ LET position == chunker.position
         endPosition == Min(position + chunker.options.chunkSize, Len(chunker.text))
         chunkText == SubSeq(chunker.text, position + 1, endPosition)
         chunk == [content |-> Trim(chunkText), index |-> Len(chunker.chunks),
                   startChar |-> position, endChar |-> endPosition]
         next == position + chunker.options.chunkSize - chunker.options.chunkOverlap
     IN chunker' = [chunker EXCEPT
                      !.chunks = IF Len(Trim(chunkText)) > 0 THEN Append(@, chunk) ELSE @,
                      !.position = IF next <= 0 THEN chunker.options.chunkSize ELSE next]
  /\ UNCHANGED <<storageVars, now, batch, cli, tool, watch>>

\* the loop ends: chunk returns the chunks
ChunkReturns ==
  /\ chunker.pc = "loop"
  /\ ~(chunker.position < Len(chunker.text))
  /\ chunker' = [chunker EXCEPT !.pc = "returned"]
  /\ UNCHANGED <<storageVars, now, batch, cli, tool, watch>>

\* ------------------------------------------- sentence and paragraph chunking
\* a chunk with an index one too high
createChunk_FromOne(content, index, startChar, endChar) ==
  [content |-> Trim(content), index |-> index + 1, startChar |-> startChar, endChar |-> endChar]

createChunk(content, index, startChar, endChar) ==
  [content |-> Trim(content), index |-> index, startChar |-> startChar, endChar |-> endChar]

\* what joins two units: ' ' between sentences, '\n\n' between paragraphs
Separator(strategy) == IF strategy = "sentence" THEN <<" ">> ELSE <<"\n", "\n">>

RECURSIVE JoinUnits(_, _)
JoinUnits(units, sep) ==
  IF units = <<>> THEN <<>>
  ELSE IF Len(units) = 1 THEN units[1]
  ELSE units[1] \o sep \o JoinUnits(Tail(units), sep)

\* the units of a text: sentenceTokenizer.tokenize, text.split(/\n\s*\n/)
RECURSIVE Tokenize(_, _, _, _)
Tokenize(text, sep, j, unit) ==
  IF j > Len(text) THEN <<unit>>
  ELSE IF j + Len(sep) - 1 <= Len(text) /\ SubSeq(text, j, j + Len(sep) - 1) = sep
  THEN <<unit>> \o Tokenize(text, sep, j + Len(sep), <<>>)
  ELSE Tokenize(text, sep, j + 1, Append(unit, text[j]))

\* getOverlapText: the whole text for an overlap of 0 or a short text, else
\* the first suffix of whole units, tried from the last unit backward, that
\* fits, else the raw tail of overlapSize characters
getOverlapText(strategy, text, overlapSize) ==
  IF overlapSize = 0 \/ Len(text) <= overlapSize THEN text
  ELSE LET sep == Separator(strategy)
           units == Tokenize(text, sep, 1, <<>>)
           suffix(j) == JoinUnits(SubSeq(units, j, Len(units)), sep)
           fits == {j \in 1..Len(units) : Len(suffix(j)) <= overlapSize}
           overlap == IF fits = {} THEN <<>>
                      ELSE suffix(CHOOSE j \in fits : \A h \in fits : h <= j)
       IN IF overlap # <<>> THEN overlap
          ELSE SubSeq(text, Len(text) - overlapSize + 1, Len(text))

\* SentenceChunking.chunk / ParagraphChunking.chunk is called on a text of
\* the given units
ChunkUnits(strategy, units, options) ==
  /\ chunker.pc \notin {"loop", "units"}
  /\ chunker' = [IdleChunker EXCEPT !.pc = "units", !.strategy = strategy, !.units = units,
                                    !.k = 1, !.options = options,
                                    !.text = JoinUnits(units, Separator(strategy))]
  /\ UNCHANGED <<storageVars, now, batch, cli, tool, watch>>

\* one turn of the for loop over the sentences or the paragraphs
UnitLoop ==
  /\ chunker.pc = "units"
  /\ chunker.k <= Len(chunker.units)
  /\ LET sep == Separator(chunker.strategy)
         unit == chunker.units[chunker.k]
         currentChunk == chunker.currentChunk
         potentialChunk == currentChunk \o (IF currentChunk # <<>> THEN sep ELSE <<>>) \o unit
         endChar == chunker.currentStart + Len(currentChunk)
         overlapText == getOverlapText(chunker.strategy, currentChunk, chunker.options.chunkOverlap)
         next == [chunker EXCEPT !.k = @ + 1,
                                 !.charPosition = @ + Len(unit) + 2]
     IN chunker' =
          IF Len(potentialChunk) >= chunker.options.chunkSize /\ Len(currentChunk) > 0
          THEN [next EXCEPT
                  !.chunks = Append(@, createChunk(currentChunk, chunker.chunkIndex,
                                                   chunker.currentStart, endChar)),
                  !.overlapText = Some(overlapText),
                  !.currentChunk = overlapText \o (IF overlapText # <<>> THEN sep ELSE <<>>)
                                     \o unit,
                  !.currentStart = endChar - Len(overlapText),
                  !.chunkIndex = @ + 1]
          ELSE [next EXCEPT
                  !.currentStart = IF chunker.strategy = "paragraph" /\ currentChunk = <<>>
                                   THEN chunker.charPosition ELSE @,
                  !.currentChunk = potentialChunk]
  /\ UNCHANGED <<storageVars, now, batch, cli, tool, watch>>

\* the loop is over: the rest of the text is the last chunk
UnitReturns ==
  /\ chunker.pc = "units"
  /\ chunker.k > Len(chunker.units)
  /\ chunker' = [chunker EXCEPT
       !.pc = "returned",
       !.chunks = IF Len(Trim(chunker.currentChunk)) > 0
                  THEN Append(@, createChunk(chunker.currentChunk, chunker.chunkIndex,
                                             chunker.currentStart,
                                             chunker.currentStart + Len(chunker.currentChunk)))
                  ELSE @]
  /\ UNCHANGED <<storageVars, now, batch, cli, tool, watch>>

\* ---------------------------------------------------------------- watch-ingest
\* WatchIngest: the add and change events of the watcher push a file on the
\* queue and call processQueue, which handles the queue one file at a time.
IdleWatch ==
  [pc |-> "uninitialized", options |-> [chunkSize |-> 0, chunkOverlap |-> 0],
   strategy |-> "sentence", queue |-> <<>>, isProcessing |-> FALSE, filePath |-> 0,
   textLength |-> 0, position |-> 0, id |-> 0, events |-> 0, pushed |-> <<>>,
   processed |-> <<>>]

\* WatchIngest.initialize: loadConfig, then the options replace chunkSize and
\* strategy when given
WatchInitialize(env, chunkSize, strategy) ==
  /\ watch.pc = "uninitialized"
  /\ watch' = [watch EXCEPT !.pc = "idle", !.strategy = strategy,
                            !.options = [env EXCEPT !.chunkSize = OrElse(chunkSize, @)]]
  /\ UNCHANGED <<storageVars, now, batch, cli, tool, chunker>>

\* the while loop of processQueue: the next file of the queue goes to
\* processFile, or the loop ends and isProcessing is false again
NextFile(w) ==
  IF Len(w.queue) > 0
  THEN [w EXCEPT !.filePath = Head(w.queue), !.queue = Tail(w.queue), !.pc = "processFile",
                 !.isProcessing = TRUE]
  ELSE [w EXCEPT !.filePath = 0, !.pc = "idle", !.isProcessing = FALSE]

\* processFile has returned, having stored the file or caught its error
FileDone(w) == NextFile([w EXCEPT !.processed = Append(@, w.filePath)])

\* an add or change event: push, then processQueue, which returns at once
\* when the queue is being processed.  No event is delivered while chunk runs.
WatchEvent(filePath) ==
  /\ watch.pc \notin {"uninitialized", "chunk"}
  /\ watch.events < MaxWatchEvents
  /\ LET w == [watch EXCEPT !.queue = Append(@, filePath), !.pushed = Append(@, filePath),
                            !.events = @ + 1]
     IN watch' = IF w.isProcessing \/ Len(w.queue) = 0 THEN w ELSE NextFile(w)
  /\ UNCHANGED <<storageVars, now, batch, cli, tool, chunker>>

\* the text of the file has been extracted: chunk is called
WatchExtracted(textLength) ==
  /\ watch.pc = "processFile"
  /\ watch' = [watch EXCEPT !.pc = "chunk", !.textLength = textLength, !.position = 0]
  /\ UNCHANGED <<storageVars, now, batch, cli, tool, chunker>>

\* the extraction throws
WatchExtractFails ==
  /\ watch.pc = "processFile"
  /\ watch' = FileDone(watch)
  /\ UNCHANGED <<storageVars, now, batch, cli, tool, chunker>>

\* position += chunkSize - chunkOverlap; if (position <= 0) position = chunkSize
NextPosition(position, options) ==
  LET next == position + options.chunkSize - options.chunkOverlap
  IN IF next <= 0 THEN options.chunkSize ELSE next

\* one turn of the while loop of FixedChunking.chunk
WatchChunkLoop ==
  /\ watch.pc = "chunk"
  /\ watch.strategy = "fixed"
  /\ watch.position < watch.textLength
  /\ watch' = [watch EXCEPT !.position = NextPosition(@, watch.options)]
  /\ UNCHANGED <<storageVars, now, batch, cli, tool, chunker>>

\* chunk returns: the for loop of the sentence strategy is over, or the
\* position of the fixed strategy has passed the end of the text
WatchChunked ==
  /\ watch.pc = "chunk"
  /\ watch.strategy = "fixed" => ~(watch.position < watch.textLength)
  /\ watch' = [watch EXCEPT !.pc = "generateEmbeddings"]
  /\ UNCHANGED <<storageVars, now, batch, cli, tool, chunker>>

\* generateEmbeddings throws
WatchEmbeddingsFail ==
  /\ watch.pc = "generateEmbeddings"
  /\ watch' = FileDone(watch)
  /\ UNCHANGED <<storageVars, now, batch, cli, tool, chunker>>

\* the document gets its random id and storage.storeDocument is called
WatchStoreDocument(d) ==
  /\ watch.pc = "generateEmbeddings"
  /\ StoreBegin(Document(d, <<E1>>, <<>>, {}))
  /\ watch' = [watch EXCEPT !.pc = "storeDocument", !.id = d]
  /\ UNCHANGED <<now, batch, cli, tool, chunker>>

\* storeDocument has returned or thrown
WatchStored ==
  /\ watch.pc = "storeDocument"
  /\ returned.kind = "store" /\ returned.id = watch.id
  /\ watch' = FileDone(watch)
  /\ returned' = NoReturn
  /\ UNCHANGED <<store, vectorIndex, diskIndex, calls, search, now, batch, cli, tool, chunker>>

Init ==
  /\ store = [d \in DocIds |-> NoDoc]
  /\ vectorIndex = <<>>
  /\ diskIndex = <<>>
  /\ calls = EmptyBag
  /\ returned = NoReturn
  /\ search = IdleSearch
  /\ now = 1
  /\ batch = IdleBatch
  /\ cli = IdleCli
  /\ tool = IdleTool
  /\ chunker = IdleChunker
  /\ watch = IdleWatch

\* ---------------------------------------------------------------- inputs
\* sequences over S of length lo..hi
SeqsOf(S, lo, hi) == UNION {[1..n -> S] : n \in lo..hi}

\* documents handed to storeDocument by concurrent requests
SmallDocs == {Document(d, c, <<>>, {}) : d \in DocIds, c \in SeqsOf({E1}, 0, MaxChunks)}

SmallOptions == {NoOptions}

StoreBegins == \E doc \in SmallDocs : StoreBegin(doc) /\ UNCHANGED toolVars

StoreSteps ==
  \/ \E c \in BagToSet(calls) : StoreSaveDocument(c) /\ UNCHANGED toolVars
  \/ \E c \in BagToSet(calls) : StoreSaveDocumentFail(c) /\ UNCHANGED toolVars
  \/ \E c \in BagToSet(calls) : StoreIndexChunks(c) /\ UNCHANGED toolVars
  \/ \E c \in BagToSet(calls) : SaveIndex(c) /\ UNCHANGED toolVars
  \/ \E c \in BagToSet(calls) : SaveIndexFail(c) /\ UNCHANGED toolVars

DeleteBegins ==
  \/ \E d \in DocIds : MgmtDeleteDocument(d) /\ UNCHANGED toolVars
  \/ \E d \in DocIds : DeleteBegin(d) /\ UNCHANGED toolVars

DeleteSteps ==
  \/ \E c \in BagToSet(calls) : DeleteUnlink(c) /\ UNCHANGED toolVars
  \/ \E c \in BagToSet(calls) : DeleteRemoveChunks(c) /\ UNCHANGED toolVars

SearchBegins == \E options \in SmallOptions : SearchBegin(E1, options) /\ UNCHANGED toolVars

\* the storage backend under concurrent requests
Next ==
  \/ StoreBegins
  \/ StoreSteps
  \/ DeleteBegins
  \/ DeleteSteps
  \/ SearchBegins
  \/ SearchGetDocument /\ UNCHANGED toolVars
  \/ CrashRestart /\ UNCHANGED toolVars

Spec == Init /\ [][Next]_vars

\* concurrent ingestions and searches, no deletion
NextStore ==
  \/ StoreBegins
  \/ StoreSteps
  \/ SearchBegins
  \/ SearchGetDocument /\ UNCHANGED toolVars
  \/ CrashRestart /\ UNCHANGED toolVars

SpecStore == Init /\ [][NextStore]_vars

\* one request at a time: a call starts only when none is in flight
NoneInFlight == calls = EmptyBag /\ search.pc # "getDocument"

NextSeq ==
  \/ NoneInFlight /\ StoreBegins
  \/ StoreSteps
  \/ NoneInFlight /\ DeleteBegins
  \/ DeleteSteps
  \/ NoneInFlight /\ SearchBegins
  \/ SearchGetDocument /\ UNCHANGED toolVars
  \/ CrashRestart /\ UNCHANGED toolVars

SpecSeq == Init /\ [][NextSeq]_vars

\* ---------------------------------------------------------------- search alone
\* searchSimilar on a populated backend with no other call in flight.  The
\* initial states are the backends left by storeDocument calls made one
\* after the other: every stored document has its chunks in the index, in
\* the order in which the documents were stored.
Embeddings == {E1, NegE1, B85, ZeroVec, ShortVec}
TagLists == {<<>>, <<"a">>}
Metadatas == {{<<"author", "X">>}, {<<"author", "X">>, <<"year", 1>>}}

RichDocs(d) ==
  {Document(d, c, t, m) : c \in SeqsOf(Embeddings, 1, MaxChunks), t \in TagLists,
                          m \in Metadatas}

RichOptions ==
  [maxResults : {Undefined, Some(1)},
   similarityThreshold : {Undefined, Some(0), Some(900)},
   filterTags : {Undefined, Some(<<"a">>)},
   filterMetadata : {Undefined, Some({<<"author", "X">>, <<"year", 1>>})}]

StoreOrders(st) ==
  {o \in SeqsOf(DocIds, 0, MaxDocs) :
     /\ Len(o) = Cardinality(Stored(st))
     /\ {o[j] : j \in 1..Len(o)} = Stored(st)}

RECURSIVE IndexAll(_, _, _)
IndexAll(idx, st, o) ==
  IF o = <<>> THEN idx ELSE IndexAll(IndexChunks(idx, st[Head(o)]), st, Tail(o))

InitSearch ==
  /\ store \in {st \in [DocIds -> UNION {RichDocs(d) : d \in DocIds} \cup {NoDoc}] :
                  \A d \in DocIds : st[d].id \in {0, d}}
  /\ vectorIndex \in {IndexAll(<<>>, store, o) : o \in StoreOrders(store)}
  /\ diskIndex = vectorIndex
  /\ calls = EmptyBag
  /\ returned = NoReturn
  /\ search = IdleSearch
  /\ now = 1
  /\ batch = IdleBatch
  /\ cli = IdleCli
  /\ tool = IdleTool
  /\ chunker = IdleChunker
  /\ watch = IdleWatch

NextSearch ==
  \/ \E options \in RichOptions : SearchBegin(E1, options) /\ UNCHANGED toolVars
  \/ SearchGetDocument /\ UNCHANGED toolVars

SpecSearch == InitSearch /\ [][NextSearch]_vars

\* ---------------------------------------------------------------- batch ingestion
\* One batchIngest call over the files of a directory tree; every file is in
\* a directory of its own and the names repeat.
Filenames == <<(<<"a">>), (<<"a", " ", "b">>), (<<"a", "_", "b">>)>>
File(k) == [dir |-> k, name |-> Filenames[(k % Len(Filenames)) + 1]]
Listings == {[k \in 1..n |-> File(k)] : n \in 0..MaxFiles}

IngestErrors == {"File is empty", "Embedding generation failed"}

NextBatch ==
  \/ BatchIngestInvalidDirectory
  \/ \E files \in Listings : BatchIngest(files)
  \/ \E message \in IngestErrors : IngestDocumentFails(message)
  \/ IngestDocumentStore(<<E1>>)
  \/ StoreSteps
  \/ IngestDocumentStored
  \/ Tick

SpecBatch == Init /\ [][NextBatch]_vars

\* ---------------------------------------------------------------- command-line runs
\* One run of a command-line ingestion.  A continuation of an awaited call
\* runs before the next file-system completion is handled.
CliTasks == 1..DefaultParallel

NextCli ==
  \/ \E variant \in {"fast", "script"}, files \in 0..MaxCliFiles,
        parallel \in 0..MaxParallel, dryRun \in BOOLEAN :
       CliStart(variant, files, parallel, dryRun)
  \/ \E t \in CliTasks : returned = NoReturn /\ TaskStat(t)
  \/ \E t \in CliTasks : returned = NoReturn /\ TaskStatFails(t)
  \/ \E t \in CliTasks, d \in DocIds : returned = NoReturn /\ TaskStoreDocument(t, d, <<E1>>)
  \/ \E t \in CliTasks : returned = NoReturn /\ TaskProcessFileFails(t)
  \/ returned = NoReturn /\ StoreSteps
  \/ \E t \in CliTasks : TaskStored(t)
  \/ returned = NoReturn /\ GroupDone

SpecCli == Init /\ [][NextCli]_vars

\* ---------------------------------------------------------------- tool calls, one at a time
Texts == {<<" ">>, <<"x">>}
TagArrays == {<<(<<" ", "a">>), (<<"a">>)>>, <<(<<" ">>), (<<"b">>)>>}

IngestArgs ==
  [file_path : {Undefined, Some(File(1))},
   text_content : {Undefined, Some(<<>>), Some(<<"x">>)},
   tags : {Undefined} \cup {Some(tags) : tags \in TagArrays},
   metadata : {{<<"author", "X">>}}]

ToolIngests ==
  \E args \in IngestArgs, fileOk \in BOOLEAN, fileContent \in Texts,
     chunks \in (-1)..MaxChunks, embeddings \in SeqsOf({E1}, 0, MaxChunks + 1),
     embedOk \in BOOLEAN :
    IngestDocument(args, fileOk, fileContent, chunks, embeddings, embedOk)

\* the ids a tool call can name: those stored, and one that is not
KnownIds == Stored(store) \cup {0}

UpdateArgs ==
  [document_id : KnownIds,
   metadata : {Undefined, Some({<<"author", "Y">>}), Some({<<"year", 1>>})},
   tags : {Undefined, Some(<<>>)} \cup {Some(tags) : tags \in TagArrays}]

NextTool ==
  \/ ToolIngests
  \/ StoreSteps
  \/ IngestDocumentReturns
  \/ \E d \in KnownIds : GetDocument(d)
  \/ \E args \in UpdateArgs : UpdateDocumentMetadata(args)
  \/ UpdateDocumentSaved
  \/ UpdateDocumentFails
  \/ Tick

SpecTool == Init /\ [][NextTool]_vars

\* ---------------------------------------------------------------- parallel ingestion
\* storeDocument calls running side by side, as the command-line tools
\* start them, every write succeeding
NextParallel ==
  \/ StoreBegins
  \/ \E c \in BagToSet(calls) : StoreSaveDocument(c) /\ UNCHANGED toolVars
  \/ \E c \in BagToSet(calls) : StoreIndexChunks(c) /\ UNCHANGED toolVars
  \/ \E c \in BagToSet(calls) : SaveIndex(c) /\ UNCHANGED toolVars

SpecParallel == Init /\ [][NextParallel]_vars

\* ---------------------------------------------------------------- deletion alone
\* deleteDocument calls, one at a time, on a backend in which every
\* document is stored with its chunks indexed
InitStored ==
  /\ store \in {st \in [DocIds -> UNION {RichDocs(d) : d \in DocIds}] :
                  \A d \in DocIds : st[d].id = d}
  /\ vectorIndex \in {IndexAll(<<>>, store, o) : o \in StoreOrders(store)}
  /\ diskIndex = vectorIndex
  /\ calls = EmptyBag
  /\ returned = NoReturn
  /\ search = IdleSearch
  /\ now = 1
  /\ batch = IdleBatch
  /\ cli = IdleCli
  /\ tool = IdleTool
  /\ chunker = IdleChunker
  /\ watch = IdleWatch

NextDelete ==
  \/ NoneInFlight /\ DeleteBegins
  \/ DeleteSteps
  \/ \E c \in BagToSet(calls) : SaveIndex(c) /\ UNCHANGED toolVars
  \/ \E c \in BagToSet(calls) : SaveIndexFail(c) /\ UNCHANGED toolVars

SpecDelete == InitStored /\ [][NextDelete]_vars

\* ---------------------------------------------------------------- claims
HasVectors(idx, d) == KeysOfDocument(idx, d) # {}

\* C1: when deleteDocument(id) has returned successfully, the store has no
\* record for id and neither the in-memory index nor its persisted snapshot
\* has an entry of id, whatever calls were made one after the other before.
C1_DeleteRemovesEverything ==
  (returned.kind = "delete" /\ ~returned.err) =>
     /\ store[returned.id] = NoDoc
     /\ ~HasVectors(vectorIndex, returned.id)
     /\ ~HasVectors(diskIndex, returned.id)

\* C2: storeDocument writes the record before any vector entry, so that with
\* ingestions stopped anywhere by a crash or a failed write, every entry of
\* the index, in memory and persisted, belongs to a document of the store.
C2_NoOrphanVector ==
  /\ \A j \in 1..Len(vectorIndex) : store[vectorIndex[j].documentId] # NoDoc
  /\ \A j \in 1..Len(diskIndex) : store[diskIndex[j].documentId] # NoDoc

\* an ingestion stopped by the failure of the index write: the record is
\* there, the persisted index has none of its vectors
C2_OrphanDocument ==
  /\ returned.kind = "store" /\ returned.err
  /\ store[returned.id] # NoDoc /\ Len(store[returned.id].chunks) > 0
  /\ ~HasVectors(diskIndex, returned.id)

\* C3: a search interleaved with storeDocument calls reads the record of
\* every document whose vectors it ranked, and every record it has read is
\* of a document whose vectors are in the index.
C3_SearchSeesBothOrNeither ==
  /\ search.pc = "getDocument" =>
       \A j \in search.i..Len(search.topResults) :
          loadDocument(store, search.topResults[j].documentId) # NoDoc
  /\ \A j \in 1..Len(search.searchResults) :
       HasVectors(vectorIndex, search.searchResults[j].document.id)

\* a search in its loop over hits of a document whose storeDocument call is
\* still writing the index snapshot
C3_SearchDuringStore ==
  /\ search.pc = "getDocument"
  /\ \E c \in BagToSet(calls) :
       /\ c.kind = "store" /\ c.pc = "saveIndex"
       /\ search.topResults[search.i].documentId = c.id

\* C4: in a search racing with deleteDocument, each hit whose document is no
\* longer in the store is dropped, each other hit is returned, and the
\* search goes on to the next hit.
C4_StaleHitsDropped ==
  [][(search.pc = "getDocument" /\ search'.pc # "idle" /\ search' # search) =>
       LET hit == search.topResults[search.i]
           document == store[hit.documentId]
       IN /\ document = NoDoc => search'.searchResults = search.searchResults
          /\ (document # NoDoc /\ hit.chunkIndex < Len(document.chunks)) =>
               search'.searchResults =
                 Append(search.searchResults, SearchResult(hit, document))
          /\ search'.pc = IF search.i = Len(search.topResults)
                          THEN "done" ELSE "getDocument"]_vars

\* a finished search that ranked two hits, lost one to a delete and
\* returned the other
C4_SearchSurvivedDelete ==
  /\ search.pc = "done"
  /\ Len(search.topResults) = 2 /\ Len(search.searchResults) = 1
  /\ \E j \in 1..2 : store[search.topResults[j].documentId] = NoDoc

\* `${id}_chunk_${index}` compared by document id, then by chunk index
ChunkIdLess(a, b) == a[1] < b[1] \/ (a[1] = b[1] /\ a[2] < b[2])

\* C8: a finished search returns at most maxResults results, in order of
\* non-increasing score, those of equal score in ascending chunk id.
C8_RankedWithTieBreak ==
  search.pc = "done" =>
    LET r == search.searchResults
    IN /\ Len(r) <= (IF search.options.maxResults = Undefined
                     THEN DefaultMaxResults ELSE search.options.maxResults[1])
       /\ \A j \in 1..(Len(r) - 1) :
            \/ r[j].score > r[j + 1].score
            \/ r[j].score = r[j + 1].score /\ ChunkIdLess(r[j].chunkId, r[j + 1].chunkId)

\* C9: every result of a finished search scores at least the threshold that
\* was supplied, 0 included.
C9_ThresholdRespected ==
  (search.pc = "done" /\ search.options.similarityThreshold # Undefined) =>
    \A j \in 1..Len(search.searchResults) :
       search.searchResults[j].score >= search.options.similarityThreshold[1]

\* C10: every result of a finished search with filterMetadata belongs to a
\* document whose customMetadata has every pair of the filter.
C10_MetadataFilterApplied ==
  (search.pc = "done" /\ search.options.filterMetadata # Undefined) =>
    \A j \in 1..Len(search.searchResults) :
       search.options.filterMetadata[1] \subseteq
         search.searchResults[j].document.customMetadata

Failed(b) == {k \in 1..Len(b.results) : b.results[k].status = "error"}
Succeeded(b) == {k \in 1..Len(b.results) : b.results[k].status = "success"}

\* C5: the result of batchIngest accounts for every file found: one
\* IngestResult per file, totalFiles = successCount + failedCount, and errors
\* has exactly one entry for each failed file, naming it.
C5_BatchTotals ==
  batch.pc = "done" =>
    /\ Len(batch.results) = Len(batch.files)
    /\ batch.successCount = Cardinality(Succeeded(batch))
    /\ batch.failedCount = Cardinality(Failed(batch))
    /\ batch.successCount + batch.failedCount = Len(batch.files)
    /\ Len(batch.errors) = batch.failedCount
    /\ \A k \in Failed(batch) :
         Cardinality({j \in 1..Len(batch.errors) : batch.errors[j].file = batch.files[k]}) = 1

\* five files, the third extracts empty text: 5 / 4 / 1 and one error
C5_ThirdFileEmpty ==
  /\ batch.pc = "done"
  /\ Len(batch.files) = 5
  /\ batch.successCount = 4
  /\ batch.failedCount = 1
  /\ batch.errors = <<[file |-> batch.files[3], error |-> "File is empty"]>>

\* C7: the ids returned by successful ingestions are pairwise different.
C7_IdsNeverCollide ==
  \A j, k \in Succeeded(batch) :
     j # k => batch.results[j].documentId # batch.results[k].documentId

\* C6: a command-line run never ends on one file's failure, and when it has
\* ended every file given has been counted as processed or as failed.
C6_EveryFileCounted ==
  /\ cli.pc # "rejected"
  /\ cli.pc = "done" => cli.processed + cli.failed = cli.files

ListTags == {<<>>, <<"a">>}
ListedDocs(d) ==
  {[Document(d, <<>>, tags, {}) EXCEPT !.createdAt = date, !.updatedAt = date] :
     tags \in ListTags, date \in 1..MaxNow}

InitList ==
  /\ store \in {st \in [DocIds -> UNION {ListedDocs(d) \cup {NoDoc} : d \in DocIds}] :
                  \A d \in DocIds : st[d] # NoDoc => st[d].id = d}
  /\ vectorIndex = <<>>
  /\ diskIndex = <<>>
  /\ calls = EmptyBag
  /\ returned = NoReturn
  /\ search = IdleSearch
  /\ now = MaxNow
  /\ batch = IdleBatch
  /\ cli = IdleCli
  /\ tool = IdleTool
  /\ chunker = IdleChunker
  /\ watch = IdleWatch

ListArgs ==
  [tags : {Undefined, Some(<<>>), Some(<<"a">>)},
   limit : {Undefined, Some(0), Some(1)},
   offset : {Undefined, Some(1)}]

NextList ==
  \/ \E args \in ListArgs : ListDocuments(args)
  \/ \E d \in DocIds : GetDocument(d)

SpecList == InitList /\ [][NextList]_vars

\* texts of every length from 1 (an empty text never reaches the chunker):
\* all letters, or with a blank at each end
ChunkTexts ==
  {[j \in 1..n |-> "x"] : n \in 1..MaxTextLength} \cup
  {[j \in 1..n |-> IF j \in {1, n} THEN " " ELSE "x"] : n \in 1..3} \cup
  {<<"x", "x", " ", " ", "x", "x">>}

Environments ==
  {[chunkSize |-> 10, chunkOverlap |-> 2], [chunkSize |-> 2, chunkOverlap |-> 2],
   [chunkSize |-> 2, chunkOverlap |-> 3], [chunkSize |-> 0, chunkOverlap |-> 0],
   [chunkSize |-> 2, chunkOverlap |-> 0]}

NextChunk ==
  \/ \E env \in Environments, text \in ChunkTexts : ServerStart(env, text)
  \/ \E env \in Environments, chunkSize \in {Undefined, Some(2), Some(10)}, text \in ChunkTexts :
       CliInitialize(env, chunkSize, text)
  \/ ChunkLoop
  \/ ChunkReturns

SpecChunk == Init /\ [][NextChunk]_vars

\* the three strategies: texts of one to three sentences or paragraphs of one
\* to three letters each
UnitTexts == {[j \in 1..n |-> "x"] : n \in 1..3}
UnitLists == SeqsOf(UnitTexts, 1, 3)
UnitOptions == [chunkSize : 2..4, chunkOverlap : 0..2]

NextChunkers ==
  \/ NextChunk
  \/ \E strategy \in {"sentence", "paragraph"}, units \in UnitLists, options \in UnitOptions :
       ChunkUnits(strategy, units, options)
  \/ UnitLoop
  \/ UnitReturns

SpecChunkers == Init /\ [][NextChunkers]_vars

\* ---------------------------------------------------------------- the watcher
WatchFiles == 1..2
WatchEnvironments == {[chunkSize |-> 2, chunkOverlap |-> 0], [chunkSize |-> 2, chunkOverlap |-> 2]}

WatchEvents == \E filePath \in WatchFiles : returned = NoReturn /\ WatchEvent(filePath)

\* what processFile and the storage do once started
WatchSteps ==
  \/ \E textLength \in {1, 3} : returned = NoReturn /\ WatchExtracted(textLength)
  \/ returned = NoReturn /\ WatchExtractFails
  \/ returned = NoReturn /\ WatchChunkLoop
  \/ returned = NoReturn /\ WatchChunked
  \/ returned = NoReturn /\ WatchEmbeddingsFail
  \/ \E d \in DocIds : returned = NoReturn /\ WatchStoreDocument(d)
  \/ returned = NoReturn /\ StoreSteps
  \/ WatchStored

NextWatch ==
  \/ \E env \in WatchEnvironments, chunkSize \in {Undefined, Some(2)},
        strategy \in {"sentence", "fixed"} : WatchInitialize(env, chunkSize, strategy)
  \/ WatchEvents
  \/ WatchSteps

\* every call that was started gets its completion and the loop goes on
SpecWatch == Init /\ [][NextWatch]_vars /\ WF_vars(WatchSteps)

\* ---------------------------------------------------------------- management
\* updates, deletions and statistics on a backend that holds every document,
\* the requests running concurrently
ManagedDoc(d) == Document(d, <<E1>>, <<"a">>, {<<"author", "X">>})

InitManage ==
  /\ store = [d \in DocIds |-> ManagedDoc(d)]
  /\ vectorIndex = IndexAll(<<>>, store, [d \in DocIds |-> d])
  /\ diskIndex = vectorIndex
  /\ calls = EmptyBag
  /\ returned = NoReturn
  /\ search = IdleSearch
  /\ now = 1
  /\ batch = IdleBatch
  /\ cli = IdleCli
  /\ tool = IdleTool
  /\ chunker = IdleChunker
  /\ watch = IdleWatch

ManageArgs ==
  [document_id : DocIds, metadata : {Undefined, Some({<<"year", 1>>})}, tags : {Undefined}]

NextManage ==
  \/ \E args \in ManageArgs : UpdateDocumentMetadata(args)
  \/ UpdateDocumentSaved
  \/ UpdateDocumentFails
  \/ GetStats
  \/ DeleteBegins
  \/ DeleteSteps
  \/ \E c \in BagToSet(calls) : SaveIndex(c) /\ UNCHANGED toolVars
  \/ \E c \in BagToSet(calls) : SaveIndexFail(c) /\ UNCHANGED toolVars

SpecManage == InitManage /\ [][NextManage]_vars

ToolReturned(op) == tool.pc = "returned" /\ tool.op = op

\* C11: no chunk is stored or indexed without an embedding.
C11_EveryChunkEmbedded ==
  /\ \A d \in DOMAIN store : \A j \in 1..Len(store[d].chunks) : store[d].chunks[j] # Undefined
  /\ \A j \in 1..Len(vectorIndex) : vectorIndex[j].embedding # Undefined

\* C12: an ingestDocument that fails before storage returns status 'error'
\* with an empty documentId and chunksCreated 0, and the store and the index
\* (in memory and on disk) are as they were when it was called.
C12_FailureLeavesStorageAlone ==
  (ToolReturned("ingestDocument") /\ tool.result.status # "success"
     /\ tool.result.message # "Document storage failed") =>
    /\ tool.result = [documentId |-> 0, chunksCreated |-> 0, status |-> "error",
                      message |-> tool.result.message]
    /\ <<store, vectorIndex, diskIndex>> = tool.before

\* an ingestDocument whose embedding provider threw has returned
C12_EmbeddingFailed ==
  /\ ToolReturned("ingestDocument")
  /\ tool.result.message = "Embedding generation failed"
  /\ Stored(store) # {}

\* C13: whenever no storeDocument or deleteDocument is in flight, the
\* persisted snapshot of the index equals the index in memory.
C13_SnapshotEqualsIndex == calls = EmptyBag => diskIndex = vectorIndex

\* C14: a step of a deleteDocument call on an id that has no record and no
\* index entry (the id was deleted before) changes neither the store nor the
\* index, in memory or persisted, and the call returns without an error.
C14_SecondDeleteChangesNothing ==
  [][\A c \in BagToSet(calls) :
       (/\ c.kind = "delete" /\ c.pc \in {"unlink", "unlinked"}
        /\ calls' # calls
        /\ loadDocument(store, c.id) = NoDoc
        /\ KeysOfDocument(vectorIndex, c.id) = {})
       => /\ UNCHANGED <<store, vectorIndex, diskIndex>>
          /\ returned'.kind = "delete" => ~returned'.err]_vars

\* a second deleteDocument has passed its unlink after a first one that
\* removed the record and the entries
C14_SecondDeleteRuns ==
  \E c \in BagToSet(calls) :
     /\ c.kind = "delete" /\ c.pc = "unlinked"
     /\ KeysOfDocument(vectorIndex, c.id) = {}
     /\ KeysOfDocument(diskIndex, c.id) = {}

\* C15: a successful updateDocumentMetadata sets customMetadata to the old
\* pairs overridden key by key by the supplied ones, replaces the tags only
\* when tags are supplied, sets updatedAt, and leaves id, content, chunks,
\* createdAt, the other documents and the index as they were.
C15_UpdateFrame ==
  (ToolReturned("updateDocumentMetadata") /\ tool.result.success) =>
    LET d == tool.args.document_id
        old == tool.before[1][d]
        new == store[d]
        supplied == IF tool.args.metadata = Undefined THEN {} ELSE tool.args.metadata[1]
        keys == {p[1] : p \in supplied}
    IN /\ new.customMetadata = supplied \cup {p \in old.customMetadata : p[1] \notin keys}
       /\ tool.args.tags = Undefined => new.tags = old.tags
       /\ tool.args.tags # Undefined => new.tags = validateTags(tool.args.tags[1])
       /\ new.id = old.id /\ new.content = old.content /\ new.chunks = old.chunks
       /\ new.createdAt = old.createdAt
       /\ \A e \in DOMAIN store \ {d} : store[e] = tool.before[1][e]
       /\ vectorIndex = tool.before[2] /\ diskIndex = tool.before[3]

\* an update that supplied the key year only has returned: author is kept
C15_KeyKept ==
  /\ ToolReturned("updateDocumentMetadata") /\ tool.result.success
  /\ tool.args.metadata = Some({<<"year", 1>>})
  /\ store[tool.args.document_id].customMetadata = {<<"author", "X">>, <<"year", 1>>}
  /\ store[tool.args.document_id].updatedAt > store[tool.args.document_id].createdAt

Submitted(args) == IF args.tags = Undefined THEN <<>> ELSE args.tags[1]

\* C17 as stated: after a successful ingestDocument getDocument yields the
\* content and the tags that were submitted and chunksCreated chunks.
C17_SameAsSubmitted ==
  (ToolReturned("ingestDocument") /\ tool.result.status = "success") =>
    LET got == FormatDocument(loadDocument(store, tool.result.documentId))
    IN /\ got.content = tool.content
       /\ got.tags = Submitted(tool.args)
       /\ got.chunks = tool.result.chunksCreated

\* C17: after a successful ingestDocument getDocument yields the content that
\* was submitted, the submitted tags trimmed and without the empty ones, and
\* chunksCreated chunks.
C17_RoundTrip ==
  (ToolReturned("ingestDocument") /\ tool.result.status = "success") =>
    LET got == FormatDocument(loadDocument(store, tool.result.documentId))
        submitted == Submitted(tool.args)
    IN /\ got.content = tool.content
       /\ TruthyString(tool.args.text_content) => got.content = tool.args.text_content[1]
       /\ Len(got.tags) <= Len(submitted)
       /\ got.tags = SelectSeq([j \in 1..Len(submitted) |-> Trim(submitted[j])],
                               LAMBDA tag : tag # <<>>)
       /\ got.chunks = tool.result.chunksCreated

\* a text with tags in need of trimming has been ingested successfully
C17_IngestedWithTags ==
  /\ ToolReturned("ingestDocument") /\ tool.result.status = "success"
  /\ tool.args.text_content = Some(<<"x">>)
  /\ tool.args.tags = Some(<<(<<" ">>), (<<"b">>)>>)
  /\ tool.result.chunksCreated = 1

\* C20: the tags of every stored document are trimmed, non-empty and
\* pairwise distinct.
C20_TagsNormalized ==
  \A d \in Stored(store) :
     LET tags == store[d].tags
     IN /\ \A j \in 1..Len(tags) : Trim(tags[j]) = tags[j] /\ tags[j] # <<>>
        /\ \A j, k \in 1..Len(tags) : j # k => tags[j] # tags[k]

\* C16: listDocuments returns exactly the stored documents that carry at
\* least one of the filter's tags (all of them without a filter), newest
\* first, cut to the window [offset, offset + limit).
C16_ListingExact ==
  ToolReturned("listDocuments") =>
    LET args == tool.args
        filtering == args.tags # Undefined /\ args.tags[1] # <<>>
        matching == {d \in Stored(store) :
                       ~filtering \/ \E j \in 1..Len(args.tags[1]) :
                                        args.tags[1][j] \in Range(store[d].tags)}
        offset == IF args.offset = Undefined THEN 0 ELSE args.offset[1]
        limit == IF args.limit = Undefined THEN 50 ELSE args.limit[1]
        listed == tool.result.documents
        size == Min(limit, Cardinality(matching) - offset)
    IN /\ tool.result.status = "success"
       /\ Len(listed) = IF size < 0 THEN 0 ELSE size
       /\ \A j \in 1..Len(listed) :
            /\ listed[j] \in matching
            /\ Cardinality({d \in matching : store[d].createdAt > store[listed[j]].createdAt})
                 <= offset + j - 1
            /\ Cardinality({d \in matching : store[d].createdAt >= store[listed[j]].createdAt})
                 >= offset + j
       /\ \A j, k \in 1..Len(listed) : j # k => listed[j] # listed[k]

\* the windows C18 describes for a text of length len: p = 0, then steps of
\* size - overlap, none after the window that reached the end
RECURSIVE Windows(_, _, _, _)
Windows(len, size, overlap, p) ==
  <<(<<p, Min(p + size, len)>>)>> \o
    (IF p + size >= len THEN <<>> ELSE Windows(len, size, overlap, p + size - overlap))

\* C18: fixed chunking of a text of length L emits the windows
\* [p, min(p + size, L)) from p = 0 in steps of size - overlap and none after
\* the window that reached the end: three windows for L = 26, size = 10,
\* overlap = 2 (in units of 100 characters).
C18_FixedWindows ==
  (/\ chunker.pc = "returned"
   /\ chunker.options.chunkOverlap < chunker.options.chunkSize
   /\ " " \notin Range(chunker.text)) =>
    [j \in 1..Len(chunker.chunks) |-> <<chunker.chunks[j].startChar, chunker.chunks[j].endChar>>]
      = Windows(Len(chunker.text), chunker.options.chunkSize, chunker.options.chunkOverlap, 0)

\* C19: under a configuration with chunkSize <= chunkOverlap chunk() never
\* returns chunks, whichever path set the configuration.
C19_SizeAboveOverlap ==
  chunker.pc = "returned" => chunker.options.chunkSize > chunker.options.chunkOverlap

C22_StartsAdvance ==
  (/\ chunker.strategy \in {"sentence", "paragraph"}
   /\ chunker.options.chunkSize > chunker.options.chunkOverlap) =>
    \A j \in 2..Len(chunker.chunks) :
       chunker.chunks[j].startChar > chunker.chunks[j - 1].startChar

\* C24: the overlap text carried from an emitted chunk into the next one is
\* at most chunkOverlap characters long.
C24_OverlapBounded ==
  (chunker.strategy \in {"sentence", "paragraph"} /\ chunker.overlapText # Undefined) =>
    Len(chunker.overlapText[1]) <= chunker.options.chunkOverlap

\* C26: fixed chunking with chunkSize > 0 terminates; a loop that terminates
\* never comes back to a position, so no two windows of a text without
\* blanks start at the same place.
C26_PositionNeverRepeats ==
  (/\ chunker.strategy = "fixed" /\ chunker.pc \in {"loop", "returned"}
   /\ chunker.options.chunkSize > 0
   /\ " " \notin Range(chunker.text)) =>
    \A j, h \in 1..Len(chunker.chunks) :
       j # h => chunker.chunks[j].startChar # chunker.chunks[h].startChar

\* C23: during a command-line batch ingestion with parallel = p at most p
\* files are being processed at any moment, and the files of the next group
\* start only when every file of the group before has finished.
C23_BoundedParallelism ==
  [][/\ Cardinality({t \in DOMAIN cli.tasks : cli.tasks[t].pc \notin {"done", "thrown"}})
          <= cli.batchSize
     /\ Cardinality({t \in DOMAIN cli'.tasks : cli'.tasks[t].pc \notin {"done", "thrown"}})
          <= cli'.batchSize
     /\ cli'.i > cli.i => \A t \in DOMAIN cli.tasks : cli.tasks[t].pc \in {"done", "thrown"}]_vars

\* the second group of a run with parallel = 1 is storing its file after the
\* file of the first group failed
C23_SecondGroupRuns ==
  /\ cli.pc = "group" /\ cli.batchSize = 1 /\ cli.i = 1 /\ cli.failed = 1
  /\ cli.tasks[1].pc = "storeDocument"

\* C25: the files pushed on the queue are processed one after the other in
\* the order of their arrival, and all of them: whenever a file is queued or
\* in progress, the queue is later empty with isProcessing false and every
\* file pushed processed, in that order.
C25_QueueDrains ==
  (watch.queue # <<>> \/ watch.isProcessing)
    ~> (watch.queue = <<>> /\ ~watch.isProcessing /\ watch.processed = watch.pushed)

\* C27: whenever no call is in flight (after a restart, or after a call has
\* returned or thrown), every entry of the persisted vector index refers to
\* a document that is present in the store.
C27_NoOrphanAfterDelete ==
  calls = EmptyBag =>
    \A j \in 1..Len(diskIndex) : loadDocument(store, diskIndex[j].documentId) # NoDoc

\* C28: a deleted document stays deleted: with no id ever used again, a
\* record that is gone from the store is not written back by any step, so
\* getDocument returns null for it ever after.
C28_DeletedStaysDeleted ==
  [][\A d \in DocIds : loadDocument(store, d) = NoDoc => loadDocument(store', d) = NoDoc]_vars

\* C29: with no operation in flight the vector index has exactly one entry
\* per chunk of each stored document and no other, and getStats reports a
\* collectionSize equal to totalChunks.
C29_IndexMatchesChunks ==
  (calls = EmptyBag /\ tool.pc = "returned") =>
    /\ \A d \in Stored(store) : \A j \in 1..Len(store[d].chunks) :
          Cardinality({h \in 1..Len(vectorIndex) : vectorIndex[h].chunkId = ChunkId(d, j - 1)}) = 1
    /\ \A h \in 1..Len(vectorIndex) :
          /\ vectorIndex[h].documentId \in Stored(store)
          /\ vectorIndex[h].chunkIndex < Len(store[vectorIndex[h].documentId].chunks)
    /\ tool.op = "getStats" =>
          /\ tool.result.status = "success"
          /\ tool.result.collectionSize = tool.result.totalChunks

\* C30: every result of a finished search is one of the maxResults
\* highest-scoring index entries that pass the threshold: it scores at least
\* the threshold, and fewer than maxResults passing entries score above it,
\* whether or not the results filled the list.
C30_CutBeforeFilter ==
  search.pc = "done" =>
    LET threshold == search.options.similarityThreshold
        maxResults == IF search.options.maxResults = Undefined
                      THEN DefaultMaxResults ELSE search.options.maxResults[1]
        score(h) == cosineSimilarity(E1, vectorIndex[h].embedding)
        passes(x) == threshold = Undefined \/ x >= threshold[1]
    IN \A j \in 1..Len(search.searchResults) :
          /\ passes(search.searchResults[j].score)
          /\ Cardinality({h \in 1..Len(vectorIndex) :
                            /\ passes(score(h))
                            /\ score(h) > search.searchResults[j].score}) < maxResults

====
